---------------------------- MODULE Spec2Model ----------------------------
(***************************************************************************)
(* Matrix Life (src/Matrix_Life.ino): a five-state Life-like automaton on  *)
(* a WIDTH x HEIGHT torus, double buffered, reseeded from a shape library  *)
(* when the activity of a cycle falls below HEIGHT*WIDTH/25.                *)
(*                                                                         *)
(* One call of loop() is one action.  The frame-rate throttle and the      *)
(* serial port do not touch the automaton and are left out.  The display   *)
(* is written and never read: what loop() gives it, the banner included,   *)
(* is followed in SpecShow; setup() is followed in SpecSetup.              *)
(***************************************************************************)
EXTENDS Integers, Sequences, FiniteSets, TLC

HEIGHT == 64
WIDTH == 128

(* How far a run is followed: calls of loop() from power-on, calls of   *)
(* loop() from a grid drawn as input, and steps of the cell loop alone. *)
MaxCycles == 2
MaxLoops == 1
MaxSteps == 4

VARIABLES
  state,    \* int state[2][WIDTH][HEIGHT]
  now,      \* index of the buffer the next cycle reads
  next,     \* index of the buffer the next cycle writes
  lc,       \* loop()'s local lc as the last cycle left it
  cycle,    \* calls of loop() completed
  seeded,   \* the calls of seed() in the last cycle, each with its draws
  input,    \* the input the run was started from
  twin,     \* a second run of the cell loop, where two runs are compared
  pc,       \* where the sketch is: in setup(), in err() or between calls of loop()
  display   \* what the matrix has been given, where the display is followed

vars == <<state, now, next, lc, cycle, seeded, input, twin, pc, display>>

XS == 0 .. WIDTH - 1
YS == 0 .. HEIGHT - 1

(* A C array initialiser, indexed from 0. *)
Arr(seq) == [i \in 0 .. Len(seq) - 1 |-> seq[i + 1]]

(***************************************************************************)
(* Colours: Adafruit_Protomatter::color565 packs 5, 6 and 5 bits.          *)
(***************************************************************************)
color565(r, g, b) == (r \div 8) * 2048 + (g \div 4) * 32 + (b \div 8)

BLACK == color565(0, 0, 0)
DARK_BLUE == color565(0, 20, 64)
GREEN == color565(0, 128, 38)
DARK_ORANGE == color565(64, 36, 0)
PETROL_BLUE == color565(0, 8, 8)
DARK_GREEN == color565(0, 64, 19)

(***************************************************************************)
(* The rule table: one rule per current cell state.                        *)
(*   0 Dead, 1 Born, 2 Survived, 3 Dying, 4 Trail                          *)
(***************************************************************************)
rulesTwoOnly ==
  Arr(<< [colour |-> BLACK, alive |-> 0,
          rule |-> Arr(<<0, 0, 0, 1, 0, 0, 1, 0, 0>>)],
         [colour |-> DARK_BLUE, alive |-> 1,
          rule |-> Arr(<<3, 3, 2, 2, 3, 3, 3, 3, 3>>)],
         [colour |-> GREEN, alive |-> 1,
          rule |-> Arr(<<3, 3, 2, 3, 3, 3, 3, 3, 3>>)],
         [colour |-> DARK_ORANGE, alive |-> 0,
          rule |-> Arr(<<4, 4, 4, 1, 4, 4, 1, 4, 4>>)],
         [colour |-> PETROL_BLUE, alive |-> 0,
          rule |-> Arr(<<4, 4, 0, 1, 0, 0, 1, 0, 0>>)] >>)

rulesConway ==
  Arr(<< [colour |-> BLACK, alive |-> 0,
          rule |-> Arr(<<0, 0, 0, 1, 0, 0, 0, 0, 0>>)],
         [colour |-> DARK_BLUE, alive |-> 1,
          rule |-> Arr(<<3, 3, 2, 2, 3, 3, 3, 3, 3>>)],
         [colour |-> GREEN, alive |-> 1,
          rule |-> Arr(<<3, 3, 2, 2, 3, 3, 3, 3, 3>>)],
         [colour |-> DARK_ORANGE, alive |-> 0,
          rule |-> Arr(<<4, 4, 4, 1, 4, 4, 1, 4, 4>>)],
         [colour |-> PETROL_BLUE, alive |-> 0,
          rule |-> Arr(<<4, 4, 0, 1, 0, 0, 1, 0, 0>>)] >>)

rulesNoTrail ==
  Arr(<< [colour |-> BLACK, alive |-> 0,
          rule |-> Arr(<<0, 0, 0, 1, 0, 0, 1, 0, 0>>)],
         [colour |-> DARK_BLUE, alive |-> 1,
          rule |-> Arr(<<3, 3, 2, 2, 3, 3, 3, 3, 3>>)],
         [colour |-> GREEN, alive |-> 1,
          rule |-> Arr(<<3, 3, 2, 2, 3, 3, 3, 3, 3>>)],
         [colour |-> DARK_ORANGE, alive |-> 0,
          rule |-> Arr(<<0, 0, 0, 1, 0, 0, 1, 0, 0>>)],
         [colour |-> PETROL_BLUE, alive |-> 0,
          rule |-> Arr(<<4, 4, 0, 1, 0, 0, 1, 0, 0>>)] >>)

rulesTrailFades ==
  Arr(<< [colour |-> BLACK, alive |-> 0,
          rule |-> Arr(<<0, 0, 0, 1, 0, 0, 1, 0, 0>>)],
         [colour |-> DARK_BLUE, alive |-> 1,
          rule |-> Arr(<<3, 3, 2, 2, 3, 3, 3, 3, 3>>)],
         [colour |-> GREEN, alive |-> 1,
          rule |-> Arr(<<3, 3, 2, 2, 3, 3, 3, 3, 3>>)],
         [colour |-> DARK_ORANGE, alive |-> 0,
          rule |-> Arr(<<4, 4, 4, 1, 4, 4, 1, 4, 4>>)],
         [colour |-> PETROL_BLUE, alive |-> 0,
          rule |-> Arr(<<0, 0, 0, 1, 0, 0, 1, 0, 0>>)] >>)

rulesTypo ==
  Arr(<< [colour |-> BLACK, alive |-> 0,
          rule |-> Arr(<<0, 0, 0, 1, 0, 0, 1, 0, 0>>)],
         [colour |-> DARK_BLUE, alive |-> 1,
          rule |-> Arr(<<3, 3, 2, 2, 3, 3, 3, 3, 3>>)],
         [colour |-> GREEN, alive |-> 1,
          rule |-> Arr(<<5, 3, 2, 2, 3, 3, 3, 3, 3>>)],
         [colour |-> DARK_ORANGE, alive |-> 0,
          rule |-> Arr(<<4, 4, 4, 1, 4, 4, 1, 4, 4>>)],
         [colour |-> PETROL_BLUE, alive |-> 0,
          rule |-> Arr(<<4, 4, 0, 1, 0, 0, 1, 0, 0>>)] >>)

rules ==
  Arr(<< [colour |-> BLACK, alive |-> 0,
          rule |-> Arr(<<0, 0, 0, 1, 0, 0, 1, 0, 0>>)],
         [colour |-> DARK_BLUE, alive |-> 1,
          rule |-> Arr(<<3, 3, 2, 2, 3, 3, 3, 3, 3>>)],
         [colour |-> GREEN, alive |-> 1,
          rule |-> Arr(<<3, 3, 2, 2, 3, 3, 3, 3, 3>>)],
         [colour |-> DARK_ORANGE, alive |-> 0,
          rule |-> Arr(<<4, 4, 4, 1, 4, 4, 1, 4, 4>>)],
         [colour |-> PETROL_BLUE, alive |-> 0,
          rule |-> Arr(<<4, 4, 0, 1, 0, 0, 1, 0, 0>>)] >>)

(***************************************************************************)
(* The seed shapes, row-major, one character per cell.                     *)
(***************************************************************************)
GLIDER ==
  [width |-> 3, height |-> 3,
   shape |-> Arr(<<" ", "1", " ",
                   " ", " ", "1",
                   "1", "1", "1">>)]

GLIDER2 ==
  [width |-> 3, height |-> 3,
   shape |-> Arr(<<" ", "1", " ",
                   "1", " ", " ",
                   "1", "1", "1">>)]

GLIDER3 ==
  [width |-> 3, height |-> 3,
   shape |-> Arr(<<"1", "1", "1",
                   "1", " ", " ",
                   " ", "1", " ">>)]

GLIDER4 ==
  [width |-> 3, height |-> 3,
   shape |-> Arr(<<"1", "1", "1",
                   " ", " ", "1",
                   " ", "1", " ">>)]

LWSS ==
  [width |-> 5, height |-> 4,
   shape |-> Arr(<<"1", " ", " ", "1", " ",
                   " ", " ", " ", " ", "1",
                   "1", " ", " ", " ", "1",
                   " ", "1", "1", "1", "1">>)]

MWSS ==
  [width |-> 6, height |-> 5,
   shape |-> Arr(<<"1", "1", "1", "1", "1", " ",
                   "1", " ", " ", " ", " ", "1",
                   "1", " ", " ", " ", " ", " ",
                   " ", "1", " ", " ", " ", "1",
                   " ", " ", " ", "1", " ", " ">>)]

HWSS ==
  [width |-> 7, height |-> 5,
   shape |-> Arr(<<" ", "1", "1", "1", "1", "1", "1",
                   "1", " ", " ", " ", " ", " ", "1",
                   " ", " ", " ", " ", " ", " ", "1",
                   "1", " ", " ", " ", " ", "1", " ",
                   " ", " ", "1", "1", " ", " ", " ">>)]

RPENT ==
  [width |-> 3, height |-> 3,
   shape |-> Arr(<<" ", "1", "1",
                   "1", "1", " ",
                   " ", "1", " ">>)]

DIEHARD ==
  [width |-> 8, height |-> 3,
   shape |-> Arr(<<" ", " ", " ", " ", " ", " ", " ", "1",
                   "1", "1", " ", " ", " ", " ", " ", " ",
                   " ", "1", " ", " ", " ", "1", "1", "1">>)]

ACORN ==
  [width |-> 7, height |-> 3,
   shape |-> Arr(<<" ", "1", " ", " ", " ", " ", " ",
                   " ", " ", " ", "1", " ", " ", " ",
                   "1", "1", " ", " ", "1", "1", "1">>)]

(* The shape selection list; repetition is the weighting. *)
seeds ==
  Arr(<<GLIDER, GLIDER2, GLIDER3, GLIDER4, LWSS, MWSS, HWSS,
        RPENT, RPENT, DIEHARD, DIEHARD, ACORN, ACORN>>)

seedsC == Cardinality(DOMAIN seeds)

(***************************************************************************)
(* The transition of one cell: lines 231-248 of loop().                    *)
(***************************************************************************)
LeftClamped(x) == IF x = 0 THEN 0 ELSE x - 1
Left(x) == IF x = 0 THEN WIDTH - 1 ELSE x - 1
RightNoWrap(x) == IF x = WIDTH - 1 THEN x ELSE x + 1
Right(x) == IF x = WIDTH - 1 THEN 0 ELSE x + 1
Up(y) == IF y = 0 THEN HEIGHT - 1 ELSE y - 1
Down(y) == IF y = HEIGHT - 1 THEN 0 ELSE y + 1

NeighboursSeven(g, x, y) ==
  LET l == Left(x)
      r == Right(x)
      u == Up(y)
      d == Down(y)
  IN  rules[g[l][u]].alive + rules[g[x][u]].alive + rules[g[r][u]].alive
      + rules[g[l][y]].alive + rules[g[r][y]].alive
      + rules[g[l][d]].alive + rules[g[x][d]].alive

(* n: the alive flags of the eight cells around (x,y) of grid g. *)
Neighbours(g, x, y) ==
  LET l == Left(x)
      r == Right(x)
      u == Up(y)
      d == Down(y)
  IN  rules[g[l][u]].alive + rules[g[x][u]].alive + rules[g[r][u]].alive
      + rules[g[l][y]].alive + rules[g[r][y]].alive
      + rules[g[l][d]].alive + rules[g[x][d]].alive + rules[g[r][d]].alive

(* ns: the new state of cell (x,y), read from grid g. *)
NewState(g, x, y) == rules[g[x][y]].rule[Neighbours(g, x, y)]


(***************************************************************************)
(* The cell loop of loop(), lines 226-251.  Every read is from st[nw] and  *)
(* every write goes to st[nx], so with nw # nx the loop leaves in st[nx]   *)
(* the new state of every cell and in lc the sum of their alive flags.     *)
(***************************************************************************)
Cells == XS \X YS

(* What the cells of g in state s add to lc. *)
Adds(g, s) ==
  IF rules[s].alive = 0 THEN 0
  ELSE rules[s].alive * Cardinality({c \in Cells : g[c[1]][c[2]] = s})

(* The sum of rules[g[x][y]].alive over the cells of g. *)
Activity(g) == Adds(g, 0) + Adds(g, 1) + Adds(g, 2) + Adds(g, 3) + Adds(g, 4)

NextGrid(g) == [x \in XS |-> [y \in YS |-> NewState(g, x, y)]]

TransitionReadsNext(st, nw, nx) ==
  LET ng == [x \in XS |-> [y \in YS |->
               rules[st[nx][x][y]].rule[Neighbours(st[nw], x, y)]]]
  IN  [state |-> [st EXCEPT ![nx] = ng], lc |-> Activity(ng)]

TransitionCountsOld(st, nw, nx) ==
  LET ng == NextGrid(st[nw])
  IN  [state |-> [st EXCEPT ![nx] = ng], lc |-> Activity(st[nw])]

Transition(st, nw, nx) ==
  LET ng == NextGrid(st[nw])
  IN  [state |-> [st EXCEPT ![nx] = ng], lc |-> Activity(ng)]

(***************************************************************************)
(* The same loop, cell by cell.  acc holds the array and lc as they stand  *)
(* between two iterations; order o names the iteration sequence, which in  *)
(* the code is y = 0..HEIGHT-1 outside and x = 0..WIDTH-1 inside.          *)
(***************************************************************************)
(* state[next][x][y] = ns; lc += rules[ns].alive *)
Store(acc, nx, x, y, ns) ==
  [state |-> [acc.state EXCEPT ![nx][x][y] = ns],
   lc |-> acc.lc + rules[ns].alive]

CellStepInPlace(acc, nw, nx, x, y) ==
  Store(acc, nw, x, y, NewState(acc.state[nw], x, y))

(* One iteration of the loop body, lines 231-248. *)
CellStep(acc, nw, nx, x, y) ==
  Store(acc, nx, x, y, NewState(acc.state[nw], x, y))

CodeOrder == <<1, 0, 0>>

(* The k-th cell of order o = <<a, b, t>>: place j = (a k + b) mod       *)
(* WIDTH*HEIGHT, a odd, of the row-major (t = 0) or the column-major     *)
(* (t = 1) sequence.  CodeOrder is the sequence of the two for loops.    *)
OrderCell(o, k) ==
  LET j == (o[1] * k + o[2]) % (WIDTH * HEIGHT)
  IN  IF o[3] = 0 THEN <<j % WIDTH, j \div WIDTH>>
      ELSE <<j \div HEIGHT, j % HEIGHT>>

CellAt(acc, nw, nx, c) == CellStep(acc, nw, nx, c[1], c[2])

(* Iterations lo..hi of the loop, one after the other: lo..mid first, *)
(* then mid+1..hi on what they left.                                  *)
RECURSIVE RunCells(_, _, _, _, _, _)
RunRest(acc, nw, nx, o, lo, hi) ==
  IF acc.lc >= 0 THEN RunCells(acc, nw, nx, o, lo, hi) ELSE acc

RunCells(acc, nw, nx, o, lo, hi) ==
  IF lo = hi THEN CellAt(acc, nw, nx, OrderCell(o, lo))
  ELSE RunRest(RunCells(acc, nw, nx, o, lo, (lo + hi) \div 2),
               nw, nx, o, (lo + hi) \div 2 + 1, hi)

(* int lc = 0; then the loop over all cells in order o. *)
TransitionIn(st, nw, nx, o) ==
  RunCells([state |-> st, lc |-> 0], nw, nx, o, 0, WIDTH * HEIGHT - 1)

Or1(v) == IF v % 2 = 0 THEN v + 1 ELSE v

(* v ^= 1 *)
Xor1(v) == IF v % 2 = 0 THEN v + 1 ELSE v - 1

LowActivityInverted(n) == n > (HEIGHT * WIDTH) \div 25
LowActivityPositive(n) == 0 < n /\ n < (HEIGHT * WIDTH) \div 25

LowActivityInclusive(n) == n <= (HEIGHT * WIDTH) \div 25

(* lc < HEIGHT * WIDTH /25 *)
LowActivity(n) == n < (HEIGHT * WIDTH) \div 25

(***************************************************************************)
(* seed(n), lines 281-299.  random(a, b) draws from a .. b-1.              *)
(***************************************************************************)
Random(a, b) == a .. b - 1

PxRangeNoInset == Random(10, WIDTH)
PxRange == Random(10, WIDTH - 10)
PyRange == Random(10, HEIGHT - 10)
SRange == Random(0, seedsC)

(* The (x,y) of the mask with a '1': i runs with x inside y. *)
MaskCells(sh) ==
  {<<i % sh.width, i \div sh.width>> :
     i \in {j \in 0 .. sh.width * sh.height - 1 : sh.shape[j] = "1"}}

(* The cells the overlay of shape s at origin (px,py) writes. *)
SeedWrites(px, py, s) ==
  {<<px + c[1], py + c[2]>> : c \in MaskCells(seeds[s])}

RECURSIVE OverlayBorn(_, _, _, _, _, _)
OverlayBorn(st, nw, px, py, sh, i) ==
  IF i >= sh.width * sh.height THEN st
  ELSE LET x == i % sh.width
           y == i \div sh.width
       IN  OverlayBorn(IF sh.shape[i] = "1"
                       THEN [st EXCEPT ![nw][px + x][py + y] = 1]
                       ELSE st,
                       nw, px, py, sh, i + 1)

(* The overlay loop of one placement, from mask index i on:            *)
(* state[now][px+x][py+y] = 2 where shape[i] is '1'.  The subscripts     *)
(* are in range for every draw (AllDrawsInBounds).                       *)
RECURSIVE Overlay(_, _, _, _, _, _)
Overlay(st, nw, px, py, sh, i) ==
  IF i >= sh.width * sh.height THEN st
  ELSE LET x == i % sh.width
           y == i \div sh.width
       IN  Overlay(IF sh.shape[i] = "1"
                   THEN [st EXCEPT ![nw][px + x][py + y] = 2]
                   ELSE st,
                   nw, px, py, sh, i + 1)

PlaceOther(st, nw, d) == Overlay(st, Xor1(nw), d.px, d.py, seeds[d.s], 0)

(* One placement with draw d = (px, py, s). *)
Place(st, nw, d) == Overlay(st, nw, d.px, d.py, seeds[d.s], 0)

(* seed(n) with its n draws, placed in order. *)
RECURSIVE seed(_, _, _)
seed(st, nw, draws) ==
  IF draws = <<>> THEN st
  ELSE seed(Place(st, nw, Head(draws)), nw, Tail(draws))

Lo(S) == CHOOSE v \in S : \A w \in S : v <= w
Hi(S) == CHOOSE v \in S : \A w \in S : v >= w

(* The draws the model follows: the two far corners of the origin       *)
(* rectangle and, of the selection list, a glider, the tallest and the  *)
(* widest shape and entries that are listed twice.                      *)
DrawnS == {0, 6, 8, 9, 10, 12}

Draws ==
  {[px |-> p[1], py |-> p[2], s |-> s] :
     p \in {<<Lo(PxRange), Lo(PyRange)>>, <<Hi(PxRange), Hi(PyRange)>>},
     s \in DrawnS \cap SRange}

(***************************************************************************)
(* loop(): Transition, show, swap, reseed on low activity.                 *)
(***************************************************************************)
AllDead == [b \in 0 .. 1 |-> [x \in XS |-> [y \in YS |-> 0]]]

NoTwin == <<>>
NoDisplay == <<>>

Init ==
  /\ state = AllDead
  /\ now = 0
  /\ next = 1
  /\ lc = 0
  /\ cycle = 0
  /\ seeded = <<>>
  /\ input = <<"poweron", 0, 0, 0, 0>>
  /\ twin = NoTwin
  /\ pc = "loop"
  /\ display = NoDisplay

(* One call of loop(), followed for at most bound calls. *)
LoopUpTo(bound) ==
  /\ pc = "loop"
  /\ cycle < bound
  /\ \E t \in {Transition(state, now, next)}, nw \in {Xor1(now)} :
       /\ lc' = t.lc
       /\ now' = nw
       /\ next' = Xor1(next)
       /\ cycle' = cycle + 1
       /\ IF LowActivity(t.lc)
          THEN \E d \in Draws :
                 /\ seeded' = << <<d>> >>
                 /\ state' = seed(t.state, nw, <<d>>)
          ELSE /\ seeded' = <<>>
               /\ state' = t.state
  /\ UNCHANGED <<input, twin, pc, display>>

Loop == LoopUpTo(MaxCycles)

Next == Loop

Spec == Init /\ [][Next]_vars

(***************************************************************************)
(* Input grids.  An input is <<kind, p, q, dx, dy>>: a base grid of the    *)
(* kind, moved by (dx,dy) around the torus so that its cells also lie      *)
(* across the edges and the corners.                                       *)
(*   "shape": selection-list entry p stamped by the Seeder at (10,10)      *)
(*   "card":  a probe for every cell state s and every alive set of        *)
(*            n = 0..8 neighbours, alive cells in state p, others in q     *)
(*   "field": p blocks and q blinkers, a population near the threshold     *)
(*   "ash":   the probes of a card with no alive cell: Dying and Trail     *)
(*            cells among cells in state q                                 *)
(***************************************************************************)
ProbeRing ==
  << <<0, 0>>, <<1, 0>>, <<2, 0>>, <<2, 1>>,
     <<2, 2>>, <<1, 2>>, <<0, 2>>, <<0, 1>> >>

(* Probe k = 72 s + 8 n + r: a cell in state s whose ring of neighbours *)
(* is alive at the n places from place r on.                            *)
CardCell(a, q, x, y) ==
  LET k == (x \div 4) + (WIDTH \div 4) * (y \div 4)
      lx == x % 4
      ly == y % 4
      s == k \div 72
      n == (k % 72) \div 8
      r == k % 8
  IN  IF s > 4 \/ lx = 3 \/ ly = 3 THEN 0
      ELSE IF lx = 1 /\ ly = 1 THEN s
      ELSE LET pos == CHOOSE i \in 1 .. 8 : ProbeRing[i] = <<lx, ly>>
           IN  IF (pos - 1 - r) % 8 < n THEN a ELSE q

(* The probes with nothing alive: Dying for Born and Trail for Survived *)
(* at the centres, Dying on the rings, q elsewhere.                     *)
AshCell(q, x, y) ==
  LET c == CardCell(3, q, x, y)
  IN  IF c \in {1, 2} THEN c + 2 ELSE c

(* Tile k holds a block when k < nb, a blinker when nb <= k < nb + nl. *)
FieldCell(nb, nl, x, y) ==
  LET k == (x \div 5) + (WIDTH \div 5) * (y \div 5)
      lx == x % 5
      ly == y % 5
  IN  IF x >= 5 * (WIDTH \div 5) THEN 0
      ELSE IF y >= 5 * (HEIGHT \div 5) THEN 0
      ELSE IF k < nb THEN (IF lx \in 1 .. 2 /\ ly \in 1 .. 2 THEN 2 ELSE 0)
      ELSE IF k < nb + nl THEN (IF lx \in 1 .. 3 /\ ly = 2 THEN 2 ELSE 0)
      ELSE 0

DeadGrid == [x \in XS |-> [y \in YS |-> 0]]

BaseGrid(in) ==
  IF in[1] = "shape"
    THEN Place(AllDead, 0, [px |-> 10, py |-> 10, s |-> in[2]])[0]
  ELSE IF in[1] = "card"
    THEN [x \in XS |-> [y \in YS |-> CardCell(in[2], in[3], x, y)]]
  ELSE IF in[1] = "field"
    THEN [x \in XS |-> [y \in YS |-> FieldCell(in[2], in[3], x, y)]]
  ELSE IF in[1] = "ash"
    THEN [x \in XS |-> [y \in YS |-> AshCell(in[3], x, y)]]
  ELSE DeadGrid

(* Grid g moved by (dx,dy) around the torus. *)
Shift(g, dx, dy) ==
  [x \in XS |-> [y \in YS |-> g[(x - dx) % WIDTH][(y - dy) % HEIGHT]]]

InputGrid(in) ==
  IF in[4] = 0 /\ in[5] = 0 THEN BaseGrid(in)
  ELSE Shift(BaseGrid(in), in[4], in[5])

GliderInput == <<"shape", 0, 0, 0, 0>>

ShapeInputs ==
  {<<"shape", s, 0, d[1], d[2]>> :
     s \in {0, 8, 9}, d \in {<<0, 0>>, <<0 - 11, 0 - 11>>}}

CardInputs ==
  {<<"card", a, q, d[1], d[2]>> :
     a \in {1, 2}, q \in {0, 3, 4},
     d \in {<<0, 0>>, <<0 - 125, 0 - 1>>, <<0 - 1, 0 - 21>>}}

FieldInputs ==
  {<<"field", c[1], c[2], d[1], d[2]>> :
     c \in {<<1, 0>>, <<0, 1>>, <<81, 0>>, <<81, 1>>},
     d \in {<<0, 0>>, <<0 - 2, 0 - 2>>}}

AshInputs ==
  {<<"ash", 0, q, d[1], d[2]>> :
     q \in {0, 4}, d \in {<<0, 0>>, <<0 - 125, 0 - 1>>}}

StepInputs == ShapeInputs \cup CardInputs \cup FieldInputs \cup AshInputs

(* Populations of 4 nb + 3 nl alive cells around HEIGHT * WIDTH / 25. *)
LoopInputs ==
  {<<"field", nb, nl, 0, 0>> : nb \in 79 .. 82, nl \in 0 .. 4}

(* Entered with grid g current in buffer 0. *)
StartFrom(in) ==
  /\ state = [b \in 0 .. 1 |-> IF b = 0 THEN InputGrid(in) ELSE DeadGrid]
  /\ now = 0
  /\ next = 1
  /\ lc = 0
  /\ cycle = 0
  /\ seeded = <<>>
  /\ input = in
  /\ pc = "loop"

(***************************************************************************)
(* SpecStep: the cell loop and the swap alone (lines 226-259), applied     *)
(* repeatedly to an input grid, with no seeding in between.                *)
(***************************************************************************)
InitStep ==
  /\ \E in \in StepInputs : StartFrom(in)
  /\ twin = NoTwin
  /\ display = NoDisplay

Step ==
  /\ cycle < MaxSteps
  /\ \E t \in {Transition(state, now, next)} :
       /\ state' = t.state
       /\ lc' = t.lc
  /\ now' = Xor1(now)
  /\ next' = Xor1(next)
  /\ cycle' = cycle + 1
  /\ UNCHANGED <<seeded, input, twin, pc, display>>

NextStep == Step

SpecStep == InitStep /\ [][NextStep]_vars

(***************************************************************************)
(* SpecLoop: loop() entered with a population near the reseed threshold.   *)
(***************************************************************************)
InitLoop ==
  /\ \E in \in LoopInputs : StartFrom(in)
  /\ twin = NoTwin
  /\ display = NoDisplay

LoopFrom == LoopUpTo(MaxLoops)

NextLoop == LoopFrom

SpecLoop == InitLoop /\ [][NextLoop]_vars

(***************************************************************************)
(* SpecOrder: one run of the cell loop over an input grid, its cells       *)
(* evaluated in the order the input names (its sixth component).           *)
(***************************************************************************)
Orders == {<<a, b, t>> : a \in {1, 3, WIDTH * HEIGHT - 1},
                         b \in {0, WIDTH * HEIGHT - 1}, t \in {0, 1}}

OrderInputs ==
  {<<g[1], g[2], g[3], g[4], g[5], o>> :
     g \in {<<"shape", 0, 0, 0, 0>>, <<"shape", 9, 0, 0 - 11, 0 - 11>>,
            <<"card", 2, 3, 0 - 125, 0 - 1>>, <<"card", 1, 4, 0, 0>>,
            <<"field", 81, 1, 0 - 2, 0 - 2>>},
     o \in Orders}

InitOrder ==
  /\ \E in \in OrderInputs : StartFrom(in)
  /\ twin = NoTwin
  /\ display = NoDisplay

OrderedStep ==
  /\ cycle = 0
  /\ \E t \in {TransitionIn(state, now, next, input[6])} :
       /\ state' = t.state
       /\ lc' = t.lc
  /\ now' = Xor1(now)
  /\ next' = Xor1(next)
  /\ cycle' = cycle + 1
  /\ UNCHANGED <<seeded, input, twin, pc, display>>

NextOrder == OrderedStep

SpecOrder == InitOrder /\ [][NextOrder]_vars

(***************************************************************************)
(* SpecPair: two runs of the cell loop and the swap from the same current  *)
(* grid.  The second run holds the grid in the other buffer, with the      *)
(* roles exchanged and other contents in the buffer to be written.         *)
(***************************************************************************)
StaleGrid == BaseGrid(<<"card", 2, 3, 0, 0>>)

InitPair ==
  \E in \in StepInputs :
    /\ display = NoDisplay
    /\ StartFrom(in)
    /\ twin = [state |-> [b \in 0 .. 1 |->
                            IF b = 1 THEN InputGrid(in) ELSE StaleGrid],
               now |-> 1, next |-> 0, lc |-> 0]

PairStep ==
  /\ cycle < MaxSteps
  /\ \E t \in {Transition(state, now, next)} :
       /\ state' = t.state
       /\ lc' = t.lc
  /\ now' = Xor1(now)
  /\ next' = Xor1(next)
  /\ cycle' = cycle + 1
  /\ \E u \in {Transition(twin.state, twin.now, twin.next)} :
       twin' = [state |-> u.state, now |-> Xor1(twin.now),
                next |-> Xor1(twin.next), lc |-> u.lc]
  /\ UNCHANGED <<seeded, input, pc, display>>

NextPair == PairStep

SpecPair == InitPair /\ [][NextPair]_vars

(***************************************************************************)
(* The display.  drawPixel puts a colour into the matrix's buffer and      *)
(* show() puts the buffer on the panel.  print() is the graphics library's *)
(* and its font is not part of the sketch: with a text and a background    *)
(* colour set it paints every pixel of the 6 x 8 cell of each character in *)
(* one of the two.  So a pixel is the set of the colours it can have: one  *)
(* colour where drawPixel wrote last, the two where print() did.           *)
(***************************************************************************)
(* Whether (x,y) is in the cells of text s printed from cursor (cx,cy). *)
InText(cx, cy, s, x, y) ==
  /\ x \in cx .. cx + 6 * Len(s) - 1
  /\ y \in cy .. cy + 7

(* The pixels banner() prints on. *)
InBanner(x, y) ==
  \/ InText(1, 1, "Game of Life", x, y)
  \/ InText(1, 9, "B36/S23", x, y)
  \/ InText(WIDTH - 18 * 6, HEIGHT - 8, "R.Lincoln May 2025", x, y)

(* banner() with setTextColor(DARK_GREEN, BLACK), over buffer px. *)
banner(px) ==
  [x \in XS |-> [y \in YS |->
     IF InBanner(x, y) THEN {DARK_GREEN, BLACK} ELSE px[x][y]]]

PixelsOfNow(st, nw, nx) ==
  [x \in XS |-> [y \in YS |-> {rules[st[nw][x][y]].colour}]]

(* The buffer when the cell loop is through: drawPixel(x, y,         *)
(* rules[ns].colour) for every cell, ns being what st[nx] now holds. *)
Pixels(st, nw, nx) ==
  [x \in XS |-> [y \in YS |-> {rules[st[nx][x][y]].colour}]]

(* fillScreen(BLACK) *)
Blank == [x \in XS |-> [y \in YS |-> {BLACK}]]

(***************************************************************************)
(* SpecShow: loop() with what it gives the display, entered with an input  *)
(* grid.  early: millis() < 10000 when it was last read.                   *)
(***************************************************************************)
ShowInputs == StepInputs \cup {<<"poweron", 0, 0, 0, 0>>}

ShowDraws ==
  {[px |-> Lo(PxRange), py |-> Lo(PyRange), s |-> 0],
   [px |-> Hi(PxRange), py |-> Hi(PyRange), s |-> 9]}

InitShow ==
  /\ \E in \in ShowInputs : StartFrom(in)
  /\ twin = NoTwin
  /\ display = [shown |-> Blank, shows |-> 0, early |-> TRUE]

ShowLoop ==
  /\ pc = "loop"
  /\ cycle < MaxLoops
  /\ \E t \in {Transition(state, now, next)}, nw \in {Xor1(now)},
        e \in (IF display.early THEN BOOLEAN ELSE {FALSE}) :
       /\ lc' = t.lc
       /\ \E px \in {Pixels(t.state, now, next)} :
            display' = [shown |-> IF e THEN banner(px) ELSE px,
                        shows |-> display.shows + 1,
                        early |-> e]
       /\ now' = nw
       /\ next' = Xor1(next)
       /\ cycle' = cycle + 1
       /\ IF LowActivity(t.lc)
          THEN \E d \in ShowDraws :
                 /\ seeded' = << <<d>> >>
                 /\ state' = seed(t.state, nw, <<d>>)
          ELSE /\ seeded' = <<>>
               /\ state' = t.state
  /\ UNCHANGED <<input, twin, pc>>

NextShow == ShowLoop

SpecShow == InitShow /\ [][NextShow]_vars

(***************************************************************************)
(* SpecShift: the cell loop and the swap run on a grid moved around the    *)
(* torus and, as the second run, on the grid before it was moved.          *)
(***************************************************************************)
ShiftInputs ==
  {<<g[1], g[2], g[3], d[1], d[2]>> :
     g \in {<<"shape", 0, 0>>, <<"shape", 9, 0>>, <<"card", 2, 3>>,
            <<"card", 1, 4>>, <<"field", 81, 1>>},
     d \in {<<WIDTH, 0>>, <<0, HEIGHT>>, <<0 - 11, 0 - 11>>,
            <<WIDTH - 12, 1>>, <<3, HEIGHT - 12>>}}

InitShift ==
  \E in \in ShiftInputs :
    /\ display = NoDisplay
    /\ StartFrom(in)
    /\ twin = [state |-> [b \in 0 .. 1 |->
                            IF b = 0 THEN BaseGrid(in) ELSE DeadGrid],
               now |-> 0, next |-> 1, lc |-> 0]

SpecShift == InitShift /\ [][NextPair]_vars

(***************************************************************************)
(* SpecSetup: the sketch from reset, setup() first and then loop(), built  *)
(* with the shape list of the source or with that list and one more shape  *)
(* of the width and height the input names.                                *)
(***************************************************************************)
Bar(w, h) ==
  [width |-> w, height |-> h, shape |-> [i \in 0 .. w * h - 1 |-> "1"]]

(* seeds[] as built: input <<"library", w, h, 0, 0>>, w = 0 for the list *)
(* of the source.                                                        *)
Library(in) ==
  IF in[2] = 0 THEN seeds
  ELSE [i \in 0 .. seedsC |-> IF i < seedsC THEN seeds[i] ELSE Bar(in[2], in[3])]

LibraryInputs ==
  {<<"library", d[1], d[2], 0, 0>> :
     d \in {<<0, 0>>, <<10, 3>>, <<11, 3>>, <<12, 3>>, <<3, 11>>, <<3, 12>>}}

(* The draws followed with list lib: the far corners of the origin *)
(* rectangle, a glider and the last entry of the list.             *)
DrawsOf(lib) ==
  {[px |-> p[1], py |-> p[2], s |-> s] :
     p \in {<<Lo(PxRange), Lo(PyRange)>>, <<Hi(PxRange), Hi(PyRange)>>},
     s \in {0, Hi(DOMAIN lib)}}

(* Whether every subscript of the overlay of draw d is inside the array. *)
InBounds(d, lib) ==
  \A c \in MaskCells(lib[d.s]) : d.px + c[1] \in XS /\ d.py + c[2] \in YS

InitSetup ==
  /\ state = AllDead
  /\ now = 0
  /\ next = 1
  /\ lc = 0
  /\ cycle = 0
  /\ seeded = <<>>
  /\ input \in LibraryInputs
  /\ twin = NoTwin
  /\ pc = "setup"
  /\ display = NoDisplay

(* setup(): err(500) when the matrix does not start, err(250) when the  *)
(* accelerometer is not found, both blinking forever; else on to loop(). *)
(* Nothing in it reads the shape list.                                   *)
Setup ==
  /\ pc = "setup"
  /\ \E status \in {"PROTOMATTER_OK", "PROTOMATTER_ERR"}, found \in BOOLEAN :
       pc' = IF status # "PROTOMATTER_OK" THEN "err500"
             ELSE IF ~found THEN "err250"
             ELSE "loop"
  /\ UNCHANGED <<state, now, next, lc, cycle, seeded, input, twin, display>>

(* loop() with the list as built.  A placement with a subscript outside *)
(* the array is undefined behaviour: the run is marked and followed no  *)
(* further, whatever the write did.                                     *)
LoopBuilt ==
  /\ pc = "loop"
  /\ cycle < MaxCycles
  /\ \E t \in {Transition(state, now, next)}, nw \in {Xor1(now)},
        lib \in {Library(input)} :
       /\ lc' = t.lc
       /\ now' = nw
       /\ next' = Xor1(next)
       /\ cycle' = cycle + 1
       /\ IF LowActivity(t.lc)
          THEN \E d \in DrawsOf(lib) :
                 /\ seeded' = << <<d>> >>
                 /\ IF InBounds(d, lib)
                    THEN /\ state' = Overlay(t.state, nw, d.px, d.py, lib[d.s], 0)
                         /\ pc' = pc
                    ELSE /\ state' = t.state
                         /\ pc' = "undefined"
          ELSE /\ seeded' = <<>>
               /\ state' = t.state
               /\ pc' = pc
  /\ UNCHANGED <<input, twin, display>>

NextSetup == Setup \/ LoopBuilt

SpecSetup == InitSetup /\ [][NextSetup]_vars

(***************************************************************************)
(* Properties.                                                             *)
(***************************************************************************)
(* The cells of grid g whose state counts as alive. *)
AliveCells(g) == {c \in Cells : rules[g[c[1]][c[2]]].alive = 1}

(* The alive flag of the cell at (x,y) taken modulo the grid's size. *)
AliveAt(g, x, y) == rules[g[x % WIDTH][y % HEIGHT]].alive

(* The alive flags of the eight cells at ((x+dx) mod WIDTH, (y+dy) mod *)
(* HEIGHT), (dx,dy) in {-1,0,1}^2 without (0,0).                       *)
TorusCount(g, x, y) ==
  AliveAt(g, x - 1, y - 1) + AliveAt(g, x, y - 1) + AliveAt(g, x + 1, y - 1)
  + AliveAt(g, x - 1, y) + AliveAt(g, x + 1, y)
  + AliveAt(g, x - 1, y + 1) + AliveAt(g, x, y + 1) + AliveAt(g, x + 1, y + 1)

(* Whether (x,y) lies under a '1' of the mask of draw d. *)
OnMask(d, x, y) ==
  LET sh == seeds[d.s]
  IN  /\ x - d.px \in 0 .. sh.width - 1
      /\ y - d.py \in 0 .. sh.height - 1
      /\ sh.shape[(y - d.py) * sh.width + (x - d.px)] = "1"

C2_Transition ==
  [][\A x \in XS : \A y \in YS :
       /\ TorusCount(state[now], x, y) \in 0 .. 8
       /\ state'[next][x][y]
            = rules[state[now][x][y]].rule[TorusCount(state[now], x, y)]]_vars

(* A dead corner cell (0,0) was born from three neighbours across the *)
(* edges: (WIDTH-1,HEIGHT-1), (0,HEIGHT-1) and (WIDTH-1,0).           *)
C2_Witness ==
  /\ cycle >= 1
  /\ state[next][0][0] = 0
  /\ rules[state[next][WIDTH - 1][HEIGHT - 1]].alive = 1
  /\ rules[state[next][0][HEIGHT - 1]].alive = 1
  /\ rules[state[next][WIDTH - 1][0]].alive = 1
  /\ state[now][0][0] = 1

(* C5: after every step lc is the number of cells of the buffer just   *)
(* written whose state is Born or Survived (alive flag 1), counted     *)
(* from 0 in this cycle, and lies in 0 .. WIDTH*HEIGHT.                *)
C5_Activity ==
  /\ {s \in DOMAIN rules : rules[s].alive = 1} = {1, 2}
  /\ cycle >= 1 =>
       /\ lc = Cardinality({c \in Cells : state[now][c[1]][c[2]] \in {1, 2}})
       /\ lc \in 0 .. WIDTH * HEIGHT

C5_Witness ==
  /\ cycle >= 2
  /\ lc > 0
  /\ lc # Cardinality(AliveCells(state[next]))

(* C6: in every cycle the buffers are swapped after the whole cell     *)
(* loop, and then seed(1) is called exactly once if lc is below        *)
(* WIDTH*HEIGHT/25 and not at all otherwise: the buffer now current    *)
(* is the loop's result of the previous one, with one placement laid   *)
(* over it in the first case and as it is in the second.               *)
C6_Maintenance ==
  cycle >= 1 =>
    \E ng \in {NextGrid(state[next])} :
      /\ now = Xor1(next)
      /\ cycle = 1 => state[next] = InputGrid(input)
      /\ lc = Cardinality(AliveCells(ng))
      /\ IF lc < (WIDTH * HEIGHT) \div 25
         THEN /\ Len(seeded) = 1
              /\ Len(seeded[1]) = 1
              /\ \A x \in XS : \A y \in YS :
                   state[now][x][y]
                     = IF OnMask(seeded[1][1], x, y) THEN 2 ELSE ng[x][y]
         ELSE /\ seeded = <<>>
              /\ state[now] = ng

C6_Witness ==
  /\ cycle = 1
  /\ lc = (WIDTH * HEIGHT) \div 25 - 1
  /\ Len(seeded) = 1

(* C7: for every origin and every shape the Seeder can draw, every     *)
(* cell the overlay writes lies inside the grid, no shape being larger *)
(* than the inset of 10; and the cells of every placement made are     *)
(* inside the grid.                                                    *)
AllDrawsInBounds ==
  \A s \in SRange :
    /\ seeds[s].width <= 10
    /\ seeds[s].height <= 10
    /\ \A px \in PxRange : \A py \in PyRange :
         \A w \in SeedWrites(px, py, s) : w[1] \in XS /\ w[2] \in YS

C7_SeedInBounds ==
  /\ AllDrawsInBounds
  /\ \A i \in DOMAIN seeded :
       \A w \in SeedWrites(seeded[i][1].px, seeded[i][1].py, seeded[i][1].s) :
         /\ w[1] \in XS
         /\ w[2] \in YS
         /\ state[now][w[1]][w[2]] = 2

(* The widest shape at the far corner of the origin rectangle. *)
C7_Witness ==
  /\ cycle >= 1
  /\ seeded = << <<[px |-> WIDTH - 11, py |-> HEIGHT - 11, s |-> 9]>> >>
  /\ state[now][WIDTH - 4][HEIGHT - 11] = 2

(* C8: a placement sets every cell under a '1' of the mask, whatever   *)
(* it held, to 2 (Survived) in the buffer the next cycle reads, and    *)
(* leaves every other cell of that buffer and the whole other buffer   *)
(* as the cell loop and the swap left them.                            *)
C8_SeedFrame ==
  [][seeded' # <<>> =>
       \E pre \in {Transition(state, now, next).state}, d \in {seeded'[1][1]} :
         /\ now' = Xor1(now)
         /\ state'[Xor1(now')] = pre[Xor1(now')]
         /\ \A x \in XS : \A y \in YS :
              state'[now'][x][y]
                = IF OnMask(d, x, y) THEN 2 ELSE pre[now'][x][y]]_vars

(* A placement over cells that were not Dead: a cell under a '1' that *)
(* the cell loop had left Born, Dying or Trail, and a cell under a    *)
(* blank of the mask that kept such a state.                          *)
C8_Witness ==
  /\ cycle >= 2
  /\ seeded # <<>>
  /\ \E x \in XS : \E y \in YS :
       /\ OnMask(seeded[1][1], x, y)
       /\ NewState(state[next], x, y) \in {1, 3, 4}
       /\ state[now][x][y] = 2
  /\ \E x \in XS : \E y \in YS :
       /\ ~OnMask(seeded[1][1], x, y)
       /\ x - seeded[1][1].px \in 0 .. seeds[seeded[1][1].s].width - 1
       /\ y - seeded[1][1].py \in 0 .. seeds[seeded[1][1].s].height - 1
       /\ state[now][x][y] \in {1, 3, 4}

(* The first cycle after power-on: the grid was all Dead, lc is 0 and *)
(* the one placement drew DIEHARD.                                    *)
DiehardOnEmpty ==
  /\ input[1] = "poweron"
  /\ cycle = 1
  /\ lc = 0
  /\ Len(seeded) = 1
  /\ seeds[seeded[1][1].s] = DIEHARD

(* C9 as claimed: after one placement of DIEHARD on the all-Dead grid *)
(* the grid holds 8 alive cells, all in state 2 and inside the grid.  *)
C9_Original ==
  DiehardOnEmpty =>
    /\ Cardinality(AliveCells(state[now])) = 8
    /\ \A c \in AliveCells(state[now]) : state[now][c[1]][c[2]] = 2

(* C9 as amended: after one placement of DIEHARD on the all-Dead grid *)
(* the alive cells are the cells under the mask's '1's, which are 7,  *)
(* all in state 2 and all inside the grid; no other cell is not Dead. *)
C9_DiehardOnEmpty ==
  DiehardOnEmpty =>
    /\ Cardinality({i \in DOMAIN DIEHARD.shape : DIEHARD.shape[i] = "1"}) = 7
    /\ Cardinality(AliveCells(state[now])) = 7
    /\ AliveCells(state[now])
         = {c \in Cells : OnMask(seeded[1][1], c[1], c[2])}
    /\ \A c \in Cells :
         state[now][c[1]][c[2]] = IF c \in AliveCells(state[now]) THEN 2 ELSE 0

C9_Witness ==
  /\ DiehardOnEmpty
  /\ Cardinality(AliveCells(state[now])) = 7

(* C10: the glider stamped at (10,10) on the all-Dead grid: after 4   *)
(* steps without seeding the alive cells are the glider's cells moved *)
(* by (+1,+1).                                                        *)
GliderCells == {<<1, 0>>, <<2, 1>>, <<0, 2>>, <<1, 2>>, <<2, 2>>}

C10_Glider ==
  /\ input = GliderInput /\ cycle = 0 =>
       AliveCells(state[now]) = {<<10 + c[1], 10 + c[2]>> : c \in GliderCells}
  /\ input = GliderInput /\ cycle = 4 =>
       AliveCells(state[now]) = {<<11 + c[1], 11 + c[2]>> : c \in GliderCells}

C10_Witness ==
  /\ input = GliderInput
  /\ cycle = 4
  /\ Cardinality(AliveCells(state[now])) = 5
  /\ rules[state[now][12][11]].alive = 1

(* C3: the cell loop reads the current buffer only and writes the     *)
(* other one only: after it the buffer that was current is as it was, *)
(* and the buffer written and lc are, for every order of evaluating   *)
(* the cells, those of the order of the code.                         *)
C3_OrderFree ==
  cycle = 1 =>
    \E ref \in {TransitionIn([b \in 0 .. 1 |->
                                IF b = 0 THEN InputGrid(input) ELSE DeadGrid],
                             0, 1, CodeOrder)} :
      /\ state[next] = InputGrid(input)
      /\ state = ref.state
      /\ lc = ref.lc
      /\ ref = Transition([b \in 0 .. 1 |->
                             IF b = 0 THEN InputGrid(input) ELSE DeadGrid], 0, 1)

(* The cells were evaluated in the reverse of the code's order, each *)
(* exactly once, and the grid changed.                               *)
C3_Witness ==
  /\ cycle = 1
  /\ input[6] = <<WIDTH * HEIGHT - 1, WIDTH * HEIGHT - 1, 0>>
  /\ OrderCell(input[6], 0) = <<WIDTH - 1, HEIGHT - 1>>
  /\ {OrderCell(input[6], k) : k \in 0 .. WIDTH * HEIGHT - 1} = Cells
  /\ state[now] # state[next]

(* C4: two runs of the cell loop started from equal current grids    *)
(* hold equal current grids and equal lc after every step, whatever  *)
(* the other buffer held and whichever buffer is current.            *)
C4_Deterministic ==
  twin # NoTwin =>
    /\ state[now] = twin.state[twin.now]
    /\ lc = twin.lc

C4_Witness ==
  /\ twin # NoTwin
  /\ cycle = MaxSteps
  /\ now # twin.now
  /\ state[now] # state[next]
  /\ state[now] = twin.state[twin.now]

(* One block on the all-Dead grid. *)
BlockInput(in) == in[1] = "field" /\ in[2] = 1 /\ in[3] = 0

(* C11: a 2x2 block of Survived cells on an otherwise all-Dead grid is *)
(* a fixed point of the cell loop: after every number of steps without *)
(* seeding the grid is the grid of the start, its four cells in state  *)
(* 2 and every other cell Dead, and lc is 4 after every step.          *)
C11_BlockStill ==
  BlockInput(input) =>
    /\ state[now] = InputGrid(input)
    /\ Cardinality(AliveCells(state[now])) = 4
    /\ \A c \in Cells :
         state[now][c[1]][c[2]] = IF c \in AliveCells(state[now]) THEN 2 ELSE 0
    /\ cycle >= 1 => lc = 4

(* The block lies across the four corners of the grid. *)
C11_Witness ==
  /\ BlockInput(input)
  /\ cycle = MaxSteps
  /\ AliveCells(state[now])
       = {<<0, 0>>, <<WIDTH - 1, 0>>, <<0, HEIGHT - 1>>, <<WIDTH - 1, HEIGHT - 1>>}
  /\ lc = 4

(* C12: the reseeding keeps the automaton from staying inert: after    *)
(* every cycle the grid the next cycle reads holds at least one alive  *)
(* cell, and after a cycle whose lc is below WIDTH*HEIGHT/25 the cells *)
(* of a placement made in that cycle are among them.                   *)
C12_NeverInert ==
  cycle >= 1 =>
    /\ \A s \in SRange : MaskCells(seeds[s]) # {}
    /\ AliveCells(state[now]) # {}
    /\ lc < (WIDTH * HEIGHT) \div 25 =>
         /\ Len(seeded) >= 1
         /\ \A w \in SeedWrites(seeded[1][1].px, seeded[1][1].py, seeded[1][1].s) :
              w \in AliveCells(state[now])

(* The grid was inert: the cycle read a grid with no alive cell and *)
(* its cell loop left none, lc is 0, and the grid read next holds  *)
(* the cells of the placement.                                     *)
C12_Witness ==
  /\ cycle >= 1
  /\ lc = 0
  /\ AliveCells(state[next]) = {}
  /\ Len(seeded) = 1
  /\ Cardinality(AliveCells(state[now])) >= 5

(* Whether every shape of list lib, at every origin the Seeder draws, *)
(* ends inside the grid.                                              *)
Fits(lib) ==
  \A s \in DOMAIN lib :
    /\ Hi(PxRange) + lib[s].width - 1 \in XS
    /\ Hi(PyRange) + lib[s].height - 1 \in YS

(* C13 as claimed: a shape list with a shape that can be written out  *)
(* of bounds is caught in setup(): the sketch ends in a fatal state    *)
(* before the first cycle, and no cycle and no seeding runs with it.   *)
C13_Original ==
  ~Fits(Library(input)) =>
    /\ pc \in {"setup", "err500", "err250"}
    /\ cycle = 0
    /\ seeded = <<>>

(* C14: the cell loop commutes with moving the grid around the torus:  *)
(* run on a grid moved by (dx,dy) it gives, after every step, the grid *)
(* it gives on the grid as it was, moved by (dx,dy), and the same lc;  *)
(* a move by (WIDTH,0) or by (0,HEIGHT) changes nothing.               *)
C14_ShiftCommutes ==
  twin # NoTwin =>
    /\ state[now] = Shift(twin.state[twin.now], input[4], input[5])
    /\ lc = twin.lc
    /\ (input[4] % WIDTH = 0 /\ input[5] % HEIGHT = 0) =>
         state[now] = twin.state[twin.now]

(* The moved pattern has evolved and lives on both sides of an edge. *)
C14_Witness ==
  /\ twin # NoTwin
  /\ cycle >= 2
  /\ state[now] # twin.state[twin.now]
  /\ state[now] # state[next]
  /\ lc > 0
  /\ \E y \in YS : /\ rules[state[now][WIDTH - 1][y]].alive = 1
                   /\ rules[state[now][0][y]].alive = 1
  /\ \E x \in XS : /\ rules[state[now][x][HEIGHT - 1]].alive = 1
                   /\ rules[state[now][x][0]].alive = 1

(* The rule B36/S23 on alive flags: a the flag of the cell, n the *)
(* number of alive cells around it.                                *)
B36S23(a, n) ==
  IF a = 1 THEN (IF n \in {2, 3} THEN 1 ELSE 0)
  ELSE (IF n \in {3, 6} THEN 1 ELSE 0)

(* C15: seen through the alive flag (Born and Survived alive; Dead,   *)
(* Dying and Trail not) a step of the cell loop is the rule B36/S23:   *)
(* an alive cell stays alive iff 2 or 3 of the eight cells around it   *)
(* are alive, another cell becomes alive iff 3 or 6 of them are; so it *)
(* is for every entry of the rule table.                               *)
C15_Highlife ==
  [][/\ \A s \in DOMAIN rules : \A n \in 0 .. 8 :
          rules[rules[s].rule[n]].alive = B36S23(rules[s].alive, n)
     /\ \A x \in XS : \A y \in YS :
          rules[state'[now'][x][y]].alive
            = B36S23(rules[state[now][x][y]].alive,
                     TorusCount(state[now], x, y))]_vars

(* Births from 3 and from 6 alive cells of a Dead, a Dying and a Trail *)
(* cell, and an alive cell lost to 1 and to 4 alive cells.             *)
C15_Witness ==
  /\ cycle >= 1
  /\ \A s \in {0, 3, 4} : \A n \in {3, 6} : \E x \in XS : \E y \in YS :
       /\ state[next][x][y] = s
       /\ TorusCount(state[next], x, y) = n
       /\ rules[state[now][x][y]].alive = 1
  /\ \A s \in {1, 2} : \A n \in {1, 4} : \E x \in XS : \E y \in YS :
       /\ state[next][x][y] = s
       /\ TorusCount(state[next], x, y) = n
       /\ rules[state[now][x][y]].alive = 0

(* C16: a step of the cell loop moves a cell only along the lifecycle: *)
(* to Dead only from Trail or Dead, to Trail only from Dying or Trail, *)
(* to Dying only from Born or Survived, to Survived only from Born or  *)
(* Survived; so an alive cell is Dying and then Trail before it is     *)
(* Dead, and no cell is Born, or Dying, in two cycles running.         *)
C16_Lifecycle ==
  [][\A x \in XS : \A y \in YS :
       \E s \in {state[now][x][y]}, ns \in {state'[now'][x][y]} :
         /\ ns = 0 => s \in {0, 4}
         /\ ns = 4 => s \in {3, 4}
         /\ ns = 3 => s \in {1, 2}
         /\ ns = 2 => s \in {1, 2}
         /\ ~(s = 1 /\ ns = 1)
         /\ ~(s = 3 /\ ns = 3)]_vars

(* Every move of the lifecycle was made by some cell in the last step. *)
C16_Witness ==
  /\ cycle >= 1
  /\ \A m \in {<<0, 1>>, <<1, 2>>, <<1, 3>>, <<2, 3>>, <<3, 4>>, <<3, 1>>,
               <<4, 0>>, <<4, 1>>, <<4, 4>>, <<2, 2>>, <<0, 0>>} :
       \E x \in XS : \E y \in YS :
         state[next][x][y] = m[1] /\ state[now][x][y] = m[2]

(* C20: a Trail cell with 0 or 1 alive cells around it stays Trail; on *)
(* a grid with no alive cell a step leaves every Trail cell Trail,     *)
(* makes every Dying cell Trail and no cell alive, so that a grid with *)
(* a Dying or Trail cell and no alive cell is never all Dead again.    *)
C20_TrailStays ==
  [][\E quiet \in {AliveCells(state[now]) = {}} :
       /\ \A x \in XS : \A y \in YS :
            /\ (state[now][x][y] = 4 /\ TorusCount(state[now], x, y) <= 1)
                 => state'[now'][x][y] = 4
            /\ (quiet /\ state[now][x][y] \in {3, 4}) => state'[now'][x][y] = 4
       /\ quiet => lc' = 0 /\ AliveCells(state'[now']) = {}
       /\ (quiet /\ state[now] # DeadGrid) => state'[now'] # DeadGrid]_vars

(* A grid of Dying and Trail cells after the last step followed: no  *)
(* cell alive, the Trail cells and the Dying cells of the start all  *)
(* Trail, nothing else changed.                                      *)
C20_Witness ==
  /\ input[1] = "ash"
  /\ cycle = MaxSteps
  /\ lc = 0
  /\ \E g \in {InputGrid(input)} :
       /\ \E c \in Cells : g[c[1]][c[2]] = 3
       /\ \E c \in Cells : g[c[1]][c[2]] = 4
       /\ \A c \in Cells :
            state[now][c[1]][c[2]] = IF g[c[1]][c[2]] = 0 THEN 0 ELSE 4

(* C17: now and next are always the two different values of {0,1};     *)
(* every cycle flips both exactly once, so the buffer a cycle wrote as *)
(* next is the buffer the following cycle reads as now, and the buffer *)
(* it read stays where it was, with its contents, to be written next:  *)
(* no grid is copied.                                                  *)
C17_RoleSwap ==
  [][/\ now \in {0, 1} /\ next \in {0, 1} /\ now # next
     /\ now' \in {0, 1} /\ next' \in {0, 1} /\ now' # next'
     /\ now = cycle % 2
     /\ now' = cycle' % 2
     /\ now' = next
     /\ next' = now
     /\ state'[next'] = state[now]]_vars

(* Two cycles from power-on: the roles are back where they started and *)
(* each buffer holds the grid its cycle wrote.                         *)
C17_Witness ==
  /\ cycle = 2
  /\ now = 0
  /\ next = 1
  /\ state[now] # state[next]
  /\ AliveCells(state[now]) # {}
  /\ AliveCells(state[next]) # {}

(* C19: at power-on both buffers are all Dead; the first cycle reads   *)
(* an all-Dead grid, writes an all-Dead grid with lc = 0 and calls the *)
(* Seeder, whose placement is then all that is not Dead; and every     *)
(* later cycle whose lc is below WIDTH*HEIGHT/25 calls it again.       *)
C19_StartupSeeds ==
  /\ cycle = 0 => state = AllDead /\ lc = 0 /\ seeded = <<>>
  /\ cycle = 1 =>
       /\ lc = 0
       /\ state[next] = DeadGrid
       /\ Len(seeded) = 1
       /\ \A x \in XS : \A y \in YS :
            state[now][x][y] = IF OnMask(seeded[1][1], x, y) THEN 2 ELSE 0
  /\ (cycle >= 1 /\ lc < (WIDTH * HEIGHT) \div 25) =>
       /\ Len(seeded) = 1
       /\ Len(seeded[1]) = 1

(* The second cycle: the first placement has evolved, lc is above 0 *)
(* and below the threshold, and the Seeder was called again.        *)
C19_Witness ==
  /\ cycle = 2
  /\ lc > 0
  /\ lc < (WIDTH * HEIGHT) \div 25
  /\ Len(seeded) = 1
  /\ Cardinality(AliveCells(state[now])) > lc

(* C18 as claimed: after every cycle the matrix has been shown once    *)
(* per cycle, and the frame shown has, at every cell, the colour of    *)
(* the state the cell loop gave the cell.                              *)
C18_Original ==
  (display # NoDisplay /\ cycle >= 1) =>
    /\ display.shows = cycle
    /\ \A x \in XS : \A y \in YS :
         rules[NewState(state[next], x, y)].colour \in display.shown[x][y]

(* C18 as amended: every cycle shows the matrix once, before the swap  *)
(* and the Seeder; the frame shown has at every cell the one colour of *)
(* the state the cell loop gave it (so not that of a placement made in *)
(* that cycle), except that in a cycle with millis() < 10000 the       *)
(* pixels of the banner's text have the text's two colours instead.    *)
C18_Frame ==
  (display # NoDisplay /\ cycle >= 1) =>
    /\ display.shows = cycle
    /\ \A x \in XS : \A y \in YS :
         display.shown[x][y]
           = IF display.early /\ InBanner(x, y) THEN {DARK_GREEN, BLACK}
             ELSE {rules[NewState(state[next], x, y)].colour}

(* A frame without the banner, with the colours of Dead, Born, Survived *)
(* and Dying cells, shown before a placement: a cell the Seeder then   *)
(* set to Survived is black in it.                                     *)
C18_Witness ==
  /\ display # NoDisplay
  /\ cycle >= 1
  /\ ~display.early
  /\ \A s \in 0 .. 3 : \E x \in XS : \E y \in YS :
       display.shown[x][y] = {rules[s].colour}
  /\ Len(seeded) = 1
  /\ \E x \in XS : \E y \in YS :
       /\ OnMask(seeded[1][1], x, y)
       /\ state[now][x][y] = 2
       /\ display.shown[x][y] = {BLACK}

=============================================================================
